---- MODULE Spec2Model ----
(***************************************************************************)
(* Connection lifecycle and shutdown coordination of thriftutils.Server    *)
(* (src/server.go): Serve / AcceptLoop / innerAccept, Stop, and the        *)
(* per-connection session goroutine running processRequests.               *)
(*                                                                         *)
(* Threads: one Serve caller, NumStoppers callers of Stop, one session     *)
(* goroutine per accepted connection.  The listener, the transport and     *)
(* protocol factories and the processor are external collaborators: their  *)
(* results are nondeterministic inputs of the actions that call them.      *)
(***************************************************************************)
EXTENDS Integers, FiniteSets, Sequences, TLC

\* ---------------------------------------------------------------- bounds
\* connections the listener can deliver
MaxConns == 2
\* concurrent callers of Stop
NumStoppers == 2

\* length of the longest list passed to SetForwardHeaders
MaxHeaders == 2

Conns == 1..MaxConns
Stoppers == 1..NumStoppers
NoConn == 0

\* ---------------------------------------------------------------- errors
\* thrift.TException values as the type switches of processRequests see them:
\* the dynamic class of the error and its TypeId().
ErrNil == [class |-> "nil", typeId |-> "none"]
ErrEOF == [class |-> "transport", typeId |-> "END_OF_FILE"]
ErrNotOpen == [class |-> "transport", typeId |-> "NOT_OPEN"]
ErrUnknownMethod == [class |-> "application", typeId |-> "UNKNOWN_METHOD"]
\* any error that is neither a TTransportException nor a TApplicationException
ErrGeneric == [class |-> "other", typeId |-> "none"]
ErrPanic == [class |-> "panic", typeId |-> "none"]

ProcessErrs == {ErrNil, ErrEOF, ErrNotOpen, ErrUnknownMethod, ErrGeneric}

\* processRequests has not returned yet / the transport factories' errors
NoReturn == [class |-> "none", typeId |-> "none"]
ErrInputFactory == [class |-> "factory", typeId |-> "input"]
ErrOutputFactory == [class |-> "factory", typeId |-> "output"]

\* Results of Serve / AcceptLoop / Stop as the caller sees them.
Nil == "nil"
NoResult == "none"

VARIABLES
    closed,            \* Server.closed (int32, atomic)
    wg,                \* Server.wg counter
    mu,                \* Server.mu holder
    connections,       \* Server.connections (key set of the map)
    headerProto,       \* inputProtocolFactory yields *thrift.THeaderProtocol
    listening,         \* serverTransport.Listen() succeeded
    interrupts,        \* calls of serverTransport.Interrupt()
    nextConn,          \* next connection the listener will deliver
    servePc,           \* position of the Serve caller
    acceptClient,      \* innerAccept: client
    acceptErr,         \* innerAccept: err
    acceptAtClosed,    \* value of closed when the last Accept() returned
    innerRet,          \* innerAccept's return values
    acceptLoopResult,  \* AcceptLoop's return value
    serveResult,       \* Serve's return value
    stopPc,            \* position of each Stop caller
    stopRole,          \* "teardown": passed the closed check; "noop": early return
    stopResult,        \* Stop's return value
    sweeps,            \* runs of Stop's range over p.connections
    closedStores,      \* executions of atomic.StoreInt32(&p.closed, 1)
    connClosed,        \* the raw connection has been closed
    sessPc,            \* position of each session goroutine
    inTrans,           \* inputTransport of the session
    outTrans,          \* outputTransport of the session
    lastOk,            \* last (ok, err) of processor.Process
    lastErr,
    frameErr,          \* last result of headerProtocol.ReadFrame
    sessResult,        \* processRequests' return value
    outProto,          \* outputProtocol of the session: "input" is the inputProtocol instance
    outFactoryCalled,  \* outputTransportFactory.GetTransport has been called
    ctx,               \* ctx of the current loop iteration
    forwardHeaders,    \* Server.forwardHeaders: nil, or the array the slice refers to
    keysArray,         \* the array SetForwardHeaders made (keys)
    callerSlice,       \* the array of the slice the caller passed to SetForwardHeaders
    lastSet            \* contents of the argument of the last SetForwardHeaders call

fwdVars == <<forwardHeaders, keysArray, callerSlice, lastSet>>
serverVars == <<closed, wg, mu, connections, headerProto, fwdVars>>
listenerVars == <<listening, interrupts, nextConn>>
serveVars == <<servePc, acceptClient, acceptErr, acceptAtClosed, innerRet,
               acceptLoopResult, serveResult>>
stopVars == <<stopPc, stopRole, stopResult, sweeps, closedStores>>
sessVars == <<sessPc, inTrans, outTrans, lastOk, lastErr, frameErr, sessResult,
              outProto, outFactoryCalled, ctx>>
vars == <<serverVars, listenerVars, serveVars, stopVars, connClosed, sessVars>>

\* header keys, and the lists a caller can pass
HeaderNames == {"a", "b"}
HeaderLists == UNION {[1..n -> HeaderNames] : n \in 0..MaxHeaders}

\* context.Background(): no read headers, no write header list
Background == [readHeaders |-> FALSE, writeHeaderList |-> <<>>]

Free == <<"free", 0>>
StopThread(s) == <<"stop", s>>

\* NewServerFactory6 (and the state of the threads before they call anything)
Init ==
    /\ closed = 0
    /\ wg = 0
    /\ mu = Free
    /\ connections = {}
    /\ headerProto \in BOOLEAN
    /\ listening = FALSE
    /\ interrupts = 0
    /\ nextConn = 1
    /\ servePc = "start"
    /\ acceptClient = NoConn
    /\ acceptErr = Nil
    /\ acceptAtClosed = FALSE
    /\ innerRet = [closed |-> 0, err |-> Nil]
    /\ acceptLoopResult = NoResult
    /\ serveResult = NoResult
    /\ stopPc = [s \in Stoppers |-> "idle"]
    /\ stopRole = [s \in Stoppers |-> "none"]
    /\ stopResult = [s \in Stoppers |-> NoResult]
    /\ sweeps = 0
    /\ closedStores = 0
    /\ connClosed = [c \in Conns |-> FALSE]
    /\ sessPc = [c \in Conns |-> "none"]
    /\ inTrans = [c \in Conns |-> "none"]
    /\ outTrans = [c \in Conns |-> "none"]
    /\ lastOk = [c \in Conns |-> TRUE]
    /\ lastErr = [c \in Conns |-> ErrNil]
    /\ frameErr = [c \in Conns |-> ErrNil]
    /\ sessResult = [c \in Conns |-> NoReturn]
    /\ outProto = [c \in Conns |-> "none"]
    /\ outFactoryCalled = [c \in Conns |-> FALSE]
    /\ ctx = [c \in Conns |-> Background]
    /\ forwardHeaders = "nil"
    /\ keysArray = <<>>
    /\ callerSlice = <<>>
    /\ lastSet = <<>>

\* ------------------------------------------------------- Serve / AcceptLoop
\* ---------------------------------------------------------- configuration
\* copy(keys, headers) into keys := make([]string, size)
CopyOf(headers) == [i \in 1..Len(headers) |-> headers[i]]

\* a setter that keeps the caller's slice
SetForwardHeaders_NoCopy(headers) ==
    /\ servePc = "start"
    /\ callerSlice' = headers
    /\ lastSet' = headers
    /\ keysArray' = <<>>
    /\ forwardHeaders' = IF Len(headers) = 0 THEN "nil" ELSE "caller"
    /\ UNCHANGED <<closed, wg, mu, connections, headerProto, listenerVars, serveVars,
                   stopVars, connClosed, sessVars>>

\* Server.SetForwardHeaders(headers), called while the server is configured,
\* before Serve: the field is read by the sessions without synchronisation,
\* so a call made while sessions run would race with that read.  An empty
\* list stores nil; any other list is copied into a new array.
SetForwardHeaders(headers) ==
    /\ servePc = "start"
    /\ callerSlice' = headers
    /\ lastSet' = headers
    /\ IF Len(headers) = 0
       THEN /\ forwardHeaders' = "nil"
            /\ keysArray' = <<>>
       ELSE /\ forwardHeaders' = "keys"
            /\ keysArray' = CopyOf(headers)
    /\ UNCHANGED <<closed, wg, mu, connections, headerProto, listenerVars, serveVars,
                   stopVars, connClosed, sessVars>>

\* The caller writes an element of the slice it passed.
CallerMutates(i, h) ==
    /\ i \in DOMAIN callerSlice
    /\ h # callerSlice[i]
    /\ callerSlice' = [callerSlice EXCEPT ![i] = h]
    /\ UNCHANGED <<closed, wg, mu, connections, headerProto, forwardHeaders, keysArray,
                   lastSet, listenerVars, serveVars, stopVars, connClosed, sessVars>>

\* a Serve that enters the accept loop whatever Listen returned
Serve_Listen_IgnoresError ==
    /\ servePc = "start"
    /\ \E ok \in BOOLEAN :
         /\ listening' = ok
         /\ servePc' = "accept"
    /\ UNCHANGED <<serverVars, interrupts, nextConn, acceptClient, acceptErr,
                   acceptAtClosed, innerRet, acceptLoopResult, serveResult, stopVars,
                   connClosed, sessVars>>

\* Server.Listen via Server.Serve: a listen failure is returned at once.
Serve_Listen ==
    /\ servePc = "start"
    /\ \E ok \in BOOLEAN :
         IF ok
         THEN /\ listening' = TRUE
              /\ servePc' = "accept"
              /\ UNCHANGED serveResult
         ELSE /\ serveResult' = "listenErr"
              /\ servePc' = "done"
              /\ UNCHANGED listening
    /\ UNCHANGED <<serverVars, interrupts, nextConn, acceptClient, acceptErr,
                   acceptAtClosed, innerRet, acceptLoopResult, stopVars,
                   connClosed, sessVars>>

\* p.serverTransport.Accept(), called without the mutex.  The listener yields
\* a fresh connection, an error, or (nil, nil); once interrupted it only fails.
Accept ==
    /\ servePc = "accept"
    /\ \/ /\ interrupts = 0
          /\ nextConn <= MaxConns
          /\ acceptClient' = nextConn
          /\ acceptErr' = Nil
          /\ nextConn' = nextConn + 1
       \/ /\ interrupts = 0
          /\ acceptClient' = NoConn
          /\ acceptErr' \in {Nil, "acceptErr"}
          /\ UNCHANGED nextConn
       \/ /\ interrupts > 0
          /\ acceptClient' = NoConn
          /\ acceptErr' = "interrupted"
          /\ UNCHANGED nextConn
    /\ acceptAtClosed' = (closed # 0)
    /\ servePc' = "lock"
    /\ UNCHANGED <<serverVars, listening, interrupts, innerRet, acceptLoopResult,
                   serveResult, stopVars, connClosed, sessVars>>

\* innerAccept testing the accept error before the closed flag
innerAcceptBranch_ErrFirst(closedVal, client, err) ==
    IF err # Nil THEN "error"
    ELSE IF closedVal # 0 THEN "closed"
    ELSE IF client # NoConn THEN "register"
    ELSE "empty"

\* innerAccept without the test of the closed flag
innerAcceptBranch_NoClosedTest(closedVal, client, err) ==
    IF err # Nil THEN "error"
    ELSE IF client # NoConn THEN "register"
    ELSE "empty"

\* The order of the tests of innerAccept: the closed flag first, then the
\* accept error, then the client.
innerAcceptBranch(closedVal, client, err) ==
    IF closedVal # 0 THEN "closed"
    ELSE IF err # Nil THEN "error"
    ELSE IF client # NoConn THEN "register"
    ELSE "empty"

\* innerAccept from p.mu.Lock() to the deferred p.mu.Unlock(): the critical
\* section, taken when the mutex is free.
innerAccept_Body ==
    /\ servePc = "lock"
    /\ mu = Free
    /\ LET br == innerAcceptBranch(closed, acceptClient, acceptErr) IN
         /\ connClosed' = IF br = "closed" /\ acceptClient # NoConn
                          THEN [connClosed EXCEPT ![acceptClient] = TRUE]
                          ELSE connClosed
         /\ innerRet' = CASE br = "closed" -> [closed |-> closed, err |-> Nil]
                          [] br = "error" -> [closed |-> 0, err |-> acceptErr]
                          [] OTHER -> [closed |-> 0, err |-> Nil]
         /\ wg' = IF br = "register" THEN wg + 1 ELSE wg
         /\ connections' = IF br = "register"
                           THEN connections \cup {acceptClient}
                           ELSE connections
         /\ sessPc' = IF br = "register"
                      THEN [sessPc EXCEPT ![acceptClient] = "setup"]
                      ELSE sessPc
    /\ servePc' = "check"
    /\ UNCHANGED <<closed, mu, headerProto, fwdVars, listenerVars, acceptClient, acceptErr,
                   acceptAtClosed, acceptLoopResult, serveResult, stopVars,
                   inTrans, outTrans, lastOk, lastErr, frameErr, sessResult,
                   outProto, outFactoryCalled, ctx>>

\* AcceptLoop: what it does with innerAccept's (closed, err).  Another
\* iteration calls innerAccept anew, with a fresh client.
AcceptLoop_Check ==
    /\ servePc = "check"
    /\ IF innerRet.err # Nil
       THEN /\ acceptLoopResult' = innerRet.err
            /\ servePc' = "ret"
            /\ UNCHANGED acceptClient
       ELSE IF innerRet.closed # 0
       THEN /\ acceptLoopResult' = Nil
            /\ servePc' = "ret"
            /\ UNCHANGED acceptClient
       ELSE /\ servePc' = "accept"
            /\ acceptClient' = NoConn
            /\ UNCHANGED acceptLoopResult
    /\ UNCHANGED <<serverVars, listenerVars, acceptErr, acceptAtClosed,
                   innerRet, serveResult, stopVars, connClosed, sessVars>>

\* Serve after AcceptLoop has returned: the loop's result is dropped.
ServeReturnValue(loopResult) == Nil

Serve_Return ==
    /\ servePc = "ret"
    /\ serveResult' = ServeReturnValue(acceptLoopResult)
    /\ servePc' = "done"
    /\ UNCHANGED <<serverVars, listenerVars, acceptClient, acceptErr, acceptAtClosed,
                   innerRet, acceptLoopResult, stopVars, connClosed, sessVars>>

\* ------------------------------------------------------------------ Stop
\* Stop without its early return
StopAlreadyClosed_Never(closedVal) == FALSE

\* atomic.LoadInt32(&p.closed) != 0
StopAlreadyClosed(closedVal) == closedVal # 0

\* p.mu.Lock() and the closed test of Stop: the early return unlocks and
\* returns nil; otherwise the caller goes on holding the mutex.  The callers
\* run the same code: they are numbered in the order they take the mutex.
Stop_Check(s) ==
    /\ stopPc[s] = "idle"
    /\ \A t \in Stoppers : t < s => stopPc[t] # "idle"
    /\ mu = Free
    /\ IF StopAlreadyClosed(closed)
       THEN /\ UNCHANGED mu
            /\ stopRole' = [stopRole EXCEPT ![s] = "noop"]
            /\ stopResult' = [stopResult EXCEPT ![s] = Nil]
            /\ stopPc' = [stopPc EXCEPT ![s] = "done"]
       ELSE /\ stopRole' = [stopRole EXCEPT ![s] = "teardown"]
            /\ stopPc' = [stopPc EXCEPT ![s] = "store"]
            /\ mu' = StopThread(s)
            /\ UNCHANGED stopResult
    /\ UNCHANGED <<closed, wg, connections, headerProto, fwdVars, listenerVars, serveVars,
                   sweeps, closedStores, connClosed, sessVars>>

\* atomic.StoreInt32(&p.closed, 1)
Stop_Store(s) ==
    /\ stopPc[s] = "store"
    /\ closed' = 1
    /\ closedStores' = closedStores + 1
    /\ stopPc' = [stopPc EXCEPT ![s] = "interrupt"]
    /\ UNCHANGED <<wg, mu, connections, headerProto, fwdVars, listenerVars, serveVars,
                   stopRole, stopResult, sweeps, connClosed, sessVars>>

\* p.serverTransport.Interrupt(), and the range over p.connections is entered
Stop_Interrupt(s) ==
    /\ stopPc[s] = "interrupt"
    /\ interrupts' = interrupts + 1
    /\ sweeps' = sweeps + 1
    /\ stopPc' = [stopPc EXCEPT ![s] = "sweep"]
    /\ UNCHANGED <<serverVars, listening, nextConn, serveVars, stopRole, stopResult,
                   closedStores, connClosed, sessVars>>

\* One iteration of the range over p.connections: conn.Close(), delete.
Stop_Sweep(s) ==
    /\ stopPc[s] = "sweep"
    /\ \E c \in connections :
         /\ connClosed' = [connClosed EXCEPT ![c] = TRUE]
         /\ connections' = connections \ {c}
    /\ UNCHANGED <<closed, wg, mu, headerProto, fwdVars, listenerVars, serveVars, stopVars,
                   sessVars>>

\* a Stop that goes on to wg.Wait() with the mutex still locked
Stop_Unlock_KeepsMutex(s) ==
    /\ stopPc[s] = "sweep"
    /\ connections = {}
    /\ stopPc' = [stopPc EXCEPT ![s] = "wait"]
    /\ UNCHANGED <<closed, wg, mu, connections, headerProto, fwdVars, listenerVars, serveVars,
                   stopRole, stopResult, sweeps, closedStores, connClosed, sessVars>>

\* The range is exhausted: p.mu.Unlock()
Stop_Unlock(s) ==
    /\ stopPc[s] = "sweep"
    /\ connections = {}
    /\ mu' = Free
    /\ stopPc' = [stopPc EXCEPT ![s] = "wait"]
    /\ UNCHANGED <<closed, wg, connections, headerProto, fwdVars, listenerVars, serveVars,
                   stopRole, stopResult, sweeps, closedStores, connClosed, sessVars>>

\* a Wait that does not block
WaitGroupDone_NoWait(counter) == TRUE

\* sync.WaitGroup.Wait returns when the counter is zero.
WaitGroupDone(counter) == counter = 0

\* p.wg.Wait(); return nil
Stop_Wait(s) ==
    /\ stopPc[s] = "wait"
    /\ WaitGroupDone(wg)
    /\ stopResult' = [stopResult EXCEPT ![s] = Nil]
    /\ stopPc' = [stopPc EXCEPT ![s] = "done"]
    /\ UNCHANGED <<serverVars, listenerVars, serveVars, stopRole, sweeps,
                   closedStores, connClosed, sessVars>>

\* --------------------------------------------------------------- sessions
\* a session that builds its own output pair whatever the input protocol is
SharesInputProtocol_Never(isHeader) == FALSE

\* headerProtocol, ok := inputProtocol.(*thrift.THeaderProtocol); if ok the
\* output protocol is the input protocol.
SharesInputProtocol(isHeader) == isHeader

\* Setup of processRequests: GetProcessor, the input transport and protocol,
\* and, unless the input protocol is a THeaderProtocol, the output pair.
\* A factory error returns before any deferred Close is registered.
Session_Setup(c) ==
    /\ sessPc[c] = "setup"
    /\ \E inOk, outOk \in BOOLEAN :
         IF ~inOk
         THEN /\ sessResult' = [sessResult EXCEPT ![c] = ErrInputFactory]
              /\ sessPc' = [sessPc EXCEPT ![c] = "cleanup"]
              /\ UNCHANGED <<inTrans, outTrans, outProto, outFactoryCalled>>
         ELSE IF SharesInputProtocol(headerProto)
         THEN /\ inTrans' = [inTrans EXCEPT ![c] = "open"]
              /\ outProto' = [outProto EXCEPT ![c] = "input"]
              /\ sessPc' = [sessPc EXCEPT ![c] = "loop"]
              /\ UNCHANGED <<outTrans, sessResult, outFactoryCalled>>
         ELSE IF ~outOk
         THEN /\ inTrans' = [inTrans EXCEPT ![c] = "open"]
              /\ outFactoryCalled' = [outFactoryCalled EXCEPT ![c] = TRUE]
              /\ sessResult' = [sessResult EXCEPT ![c] = ErrOutputFactory]
              /\ sessPc' = [sessPc EXCEPT ![c] = "cleanup"]
              /\ UNCHANGED <<outTrans, outProto>>
         ELSE /\ inTrans' = [inTrans EXCEPT ![c] = "open"]
              /\ outFactoryCalled' = [outFactoryCalled EXCEPT ![c] = TRUE]
              /\ outTrans' = [outTrans EXCEPT ![c] = "open"]
              /\ outProto' = [outProto EXCEPT ![c] = "output"]
              /\ sessPc' = [sessPc EXCEPT ![c] = "loop"]
              /\ UNCHANGED sessResult
    /\ UNCHANGED <<serverVars, listenerVars, serveVars, stopVars, connClosed,
                   lastOk, lastErr, frameErr, ctx>>

\* Closes that are not deferred: an unwinding return skips them
DeferredClose_Skipped(trans) == trans

\* A transport after its deferred Close, registered only for a transport that
\* is not nil.
DeferredClose(trans) == IF trans = "open" THEN "closed" ELSE trans

\* A return from the loop of processRequests with `result`: the deferred
\* outputTransport.Close() and inputTransport.Close() run (both transports wrap
\* the raw connection), then the recover, and the goroutine is left with its
\* own deferred function.
ReturnFromLoop(c, result) ==
    /\ sessResult' = [sessResult EXCEPT ![c] = result]
    /\ outTrans' = [outTrans EXCEPT ![c] = DeferredClose(@)]
    /\ inTrans' = [inTrans EXCEPT ![c] = DeferredClose(@)]
    /\ connClosed' = [connClosed EXCEPT ![c] =
                        @ \/ DeferredClose(inTrans[c]) = "closed"
                          \/ DeferredClose(outTrans[c]) = "closed"]
    /\ sessPc' = [sessPc EXCEPT ![c] = "cleanup"]

\* a loop head that does not read the closed flag
Session_LoopCheck_NoClosedTest(c) ==
    /\ sessPc[c] = "loop"
    /\ lastOk' = [lastOk EXCEPT ![c] = TRUE]
    /\ lastErr' = [lastErr EXCEPT ![c] = ErrNil]
    /\ sessPc' = [sessPc EXCEPT ![c] = IF headerProto THEN "readFrame" ELSE "process"]
    /\ UNCHANGED <<sessResult, inTrans, outTrans, connClosed>>
    /\ UNCHANGED <<serverVars, listenerVars, serveVars, stopVars, frameErr,
                   outProto, outFactoryCalled, ctx>>

\* Head of the loop: the lock-free read of the closed flag.  ok and err are
\* locals of one iteration: a new iteration starts without them.
Session_LoopCheck(c) ==
    /\ sessPc[c] = "loop"
    /\ lastOk' = [lastOk EXCEPT ![c] = TRUE]
    /\ lastErr' = [lastErr EXCEPT ![c] = ErrNil]
    /\ IF closed # 0
       THEN ReturnFromLoop(c, ErrNil)
       ELSE /\ sessPc' = [sessPc EXCEPT ![c] = IF headerProto THEN "readFrame" ELSE "process"]
            /\ UNCHANGED <<sessResult, inTrans, outTrans, connClosed>>
    /\ UNCHANGED <<serverVars, listenerVars, serveVars, stopVars, frameErr,
                   outProto, outFactoryCalled, ctx>>

\* A request of the peer can arrive as long as the connection is open.
RequestAvailable(c) == ~connClosed[c]

\* What a read on the connection yields when no request arrives: the peer ended
\* the stream, or the connection was closed under the reader.
StreamEndErrs(c) == IF connClosed[c] THEN {ErrEOF, ErrNotOpen} ELSE {ErrEOF}

\* The slice p.forwardHeaders as a reader sees it
ForwardHeaderList ==
    CASE forwardHeaders = "nil" -> <<>>
      [] forwardHeaders = "keys" -> keysArray
      [] forwardHeaders = "caller" -> callerSlice

\* thrift.SetWriteHeaderList(thrift.AddReadTHeaderToContext(ctx, ...), p.forwardHeaders)
HeaderContext(writeList) == [readHeaders |-> TRUE, writeHeaderList |-> writeList]

\* headerProtocol.ReadFrame(): an error is returned as it is; after a frame the
\* context gets the read headers and the forward-header list.
Session_ReadFrame(c) ==
    /\ sessPc[c] = "readFrame"
    /\ \E e \in (IF RequestAvailable(c) THEN {ErrNil} ELSE {}) \cup StreamEndErrs(c) :
         /\ frameErr' = [frameErr EXCEPT ![c] = e]
         /\ IF e # ErrNil
            THEN /\ ReturnFromLoop(c, e)
                 /\ UNCHANGED ctx
            ELSE /\ sessPc' = [sessPc EXCEPT ![c] = "process"]
                 /\ ctx' = [ctx EXCEPT ![c] = HeaderContext(ForwardHeaderList)]
                 /\ UNCHANGED <<sessResult, inTrans, outTrans, connClosed>>
    /\ UNCHANGED <<serverVars, listenerVars, serveVars, stopVars, lastOk, lastErr,
                   outProto, outFactoryCalled>>

\* a classification without the END_OF_FILE test: every transport error is returned
Classify_EOFIsError(ok, err) ==
    IF err.class = "transport" THEN "returnErr"
    ELSE IF err.class = "application" /\ err.typeId = "UNKNOWN_METHOD" THEN "continue"
    ELSE IF ~ok THEN "break"
    ELSE "continue"

\* a classification without the final "if !ok { break }"
Classify_IgnoreOk(ok, err) ==
    IF err.class = "transport" /\ err.typeId = "END_OF_FILE" THEN "returnNil"
    ELSE IF err.class = "transport" THEN "returnErr"
    ELSE "continue"

\* The classification of processor.Process's (ok, err).  In
\*   if err, ok := err.(TTransportException); ok && ... {} else if err != nil {}
\* the err of the else-if is the TTransportException of the type assertion:
\* it is nil whenever the error is of another type.
Classify(ok, err) ==
    IF err.class = "transport" /\ err.typeId = "END_OF_FILE" THEN "returnNil"
    ELSE IF err.class = "transport" THEN "returnErr"
    ELSE IF err.class = "application" /\ err.typeId = "UNKNOWN_METHOD" THEN "continue"
    ELSE IF ~ok THEN "break"
    ELSE "continue"

\* A panic in Process unwinds through the deferred Closes to the recover.
ProcessExit(ok, err) == IF err = ErrPanic THEN "recover" ELSE Classify(ok, err)

\* processor.Process and what the loop does with its result.  The processor
\* serves a request with any (ok, err), reporting a failed read or write (a
\* transport error) with ok = false; or it finds the stream ended.
Session_Process(c) ==
    /\ sessPc[c] = "process"
    /\ \E ok \in BOOLEAN, err \in ProcessErrs \cup {ErrPanic} :
         /\ \/ /\ RequestAvailable(c)
               /\ err.class \in {"panic", "transport"} => ~ok
            \/ /\ ~ok
               /\ err \in StreamEndErrs(c)
         /\ lastOk' = [lastOk EXCEPT ![c] = ok]
         /\ lastErr' = [lastErr EXCEPT ![c] = err]
         /\ LET exit == ProcessExit(ok, err) IN
              IF exit = "continue"
              THEN /\ sessPc' = [sessPc EXCEPT ![c] = "loop"]
                   /\ UNCHANGED <<sessResult, inTrans, outTrans, connClosed>>
              ELSE ReturnFromLoop(c, IF exit = "returnErr" THEN err ELSE ErrNil)
    /\ ctx' = [ctx EXCEPT ![c] = Background]
    /\ UNCHANGED <<serverVars, listenerVars, serveVars, stopVars, frameErr,
                   outProto, outFactoryCalled>>

\* a deferred function that forgets delete(p.connections, client)
Session_Cleanup_NoDelete(c) ==
    /\ sessPc[c] = "cleanup"
    /\ mu = Free
    /\ wg' = wg - 1
    /\ sessPc' = [sessPc EXCEPT ![c] = "done"]
    /\ inTrans' = [inTrans EXCEPT ![c] = "none"]
    /\ outTrans' = [outTrans EXCEPT ![c] = "none"]
    /\ lastOk' = [lastOk EXCEPT ![c] = TRUE]
    /\ lastErr' = [lastErr EXCEPT ![c] = ErrNil]
    /\ frameErr' = [frameErr EXCEPT ![c] = ErrNil]
    /\ sessResult' = [sessResult EXCEPT ![c] = NoReturn]
    /\ outProto' = [outProto EXCEPT ![c] = "none"]
    /\ outFactoryCalled' = [outFactoryCalled EXCEPT ![c] = FALSE]
    /\ UNCHANGED ctx
    /\ UNCHANGED <<closed, mu, connections, headerProto, fwdVars, listenerVars, serveVars,
                   stopVars, connClosed>>

\* The goroutine's deferred function, taken when the mutex is free:
\* p.mu.Lock(); delete(p.connections, client); p.wg.Done(); p.mu.Unlock().
\* The goroutine ends, and with it the locals of processRequests.
Session_Cleanup(c) ==
    /\ sessPc[c] = "cleanup"
    /\ mu = Free
    /\ connections' = connections \ {c}
    /\ wg' = wg - 1
    /\ sessPc' = [sessPc EXCEPT ![c] = "done"]
    /\ inTrans' = [inTrans EXCEPT ![c] = "none"]
    /\ outTrans' = [outTrans EXCEPT ![c] = "none"]
    /\ lastOk' = [lastOk EXCEPT ![c] = TRUE]
    /\ lastErr' = [lastErr EXCEPT ![c] = ErrNil]
    /\ frameErr' = [frameErr EXCEPT ![c] = ErrNil]
    /\ sessResult' = [sessResult EXCEPT ![c] = NoReturn]
    /\ outProto' = [outProto EXCEPT ![c] = "none"]
    /\ outFactoryCalled' = [outFactoryCalled EXCEPT ![c] = FALSE]
    /\ UNCHANGED ctx
    /\ UNCHANGED <<closed, mu, headerProto, fwdVars, listenerVars, serveVars, stopVars, connClosed>>

\* ---------------------------------------------------------- specification
Next ==
    \/ Serve_Listen
    \/ Accept
    \/ innerAccept_Body
    \/ AcceptLoop_Check
    \/ Serve_Return
    \/ \E s \in Stoppers : Stop_Check(s)
    \/ \E s \in Stoppers : Stop_Store(s)
    \/ \E s \in Stoppers : Stop_Interrupt(s)
    \/ \E s \in Stoppers : Stop_Sweep(s)
    \/ \E s \in Stoppers : Stop_Unlock(s)
    \/ \E s \in Stoppers : Stop_Wait(s)
    \/ \E c \in Conns : Session_Setup(c)
    \/ \E c \in Conns : Session_LoopCheck(c)
    \/ \E c \in Conns : Session_ReadFrame(c)
    \/ \E c \in Conns : Session_Process(c)
    \/ \E c \in Conns : Session_Cleanup(c)

Spec == Init /\ [][Next]_vars

\* The configuration of a server up to the start of Serve: SetForwardHeaders
\* calls, and a caller that goes on writing to the slice it passed.
NextConfig ==
    \/ \E headers \in HeaderLists : SetForwardHeaders(headers)
    \/ \E i \in 1..MaxHeaders, h \in HeaderNames : CallerMutates(i, h)
    \/ Serve_Listen

SpecConfig == Init /\ [][NextConfig]_vars

\* The server with its configuration calls: SetForwardHeaders before Serve,
\* and a caller that goes on writing to the slice it passed.
NextHeaders ==
    \/ \E headers \in HeaderLists : SetForwardHeaders(headers)
    \/ \E i \in 1..MaxHeaders, h \in HeaderNames : CallerMutates(i, h)
    \/ Next

SpecHeaders == Init /\ [][NextHeaders]_vars

\* The steps of a Stop call that holds or has released the mutex: none of them
\* waits for anything but the counter.
StopRun(s) ==
    \/ Stop_Store(s)
    \/ Stop_Interrupt(s)
    \/ Stop_Sweep(s)
    \/ Stop_Unlock(s)
    \/ Stop_Wait(s)

\* The steps of a session goroutine that do not wait for the peer: setup, the
\* loop head, a read on a connection that has been closed, and the cleanup.
SessionRun(c) ==
    \/ Session_Setup(c)
    \/ Session_LoopCheck(c)
    \/ connClosed[c] /\ Session_ReadFrame(c)
    \/ connClosed[c] /\ Session_Process(c)
    \/ Session_Cleanup(c)

\* The scheduler runs every goroutine that can take a step.
Fairness ==
    /\ \A s \in Stoppers : WF_vars(StopRun(s))
    /\ \A c \in Conns : WF_vars(SessionRun(c))

FairSpec == Spec /\ Fairness

\* ----------------------------------------------------------------- claims
\* Connections innerAccept has inserted into the registry
Registered == {c \in Conns : sessPc[c] # "none"}

\* Registered sessions whose deferred cleanup has not run
LiveSessions == {c \in Conns : sessPc[c] \notin {"none", "done"}}

\* The session's deferred Closes have run on the transports it created
TransportsClosed(c) == inTrans[c] = "closed" /\ outTrans[c] # "open" /\ connClosed[c]

\* C1: when the Stop call that performs the teardown returns, the registry is
\* empty, the live-session counter is zero, every registered session has run its
\* cleanup, and every registered connection has been closed.
C1_StopLeavesNothingOpen ==
    (\E s \in Stoppers : stopRole[s] = "teardown" /\ stopPc[s] = "done")
        => /\ connections = {}
           /\ wg = 0
           /\ \A c \in Registered : sessPc[c] = "done" /\ connClosed[c]

\* C2 as stated: at the moment any Stop call returns, the live-session counter
\* is zero.
C2_EveryStopWaits ==
    \A s \in Stoppers : stopPc[s] = "done" => wg = 0

\* C2 amended: the Stop call that performs the teardown does not return until
\* every registered session has unwound, so the counter is zero and no session
\* is live when it returns.
C2_TeardownStopWaits ==
    \A s \in Stoppers :
        stopPc[s] = "done" /\ stopRole[s] = "teardown"
            => wg = 0 /\ LiveSessions = {} /\ connections = {}

\* a teardown Stop has returned after sessions had been registered
C2_Witness ==
    \E s \in Stoppers :
        /\ stopPc[s] = "done" /\ stopRole[s] = "teardown"
        /\ Cardinality(Registered) = MaxConns
        /\ wg = 0

\* C3: across all Stop calls the teardown runs at most once: one store of the
\* closed flag, one Interrupt, one sweep, one caller past the closed test; every
\* other call has returned nil from the early return.
C3_TeardownAtMostOnce ==
    /\ closedStores <= 1
    /\ interrupts <= 1
    /\ sweeps <= 1
    /\ Cardinality({s \in Stoppers : stopRole[s] = "teardown"}) <= 1
    /\ \A s \in Stoppers :
         stopRole[s] = "noop" => stopPc[s] = "done" /\ stopResult[s] = Nil
    /\ \A s \in Stoppers :
         stopPc[s] \in {"store", "interrupt", "sweep", "wait"} => stopRole[s] = "teardown"

\* two Stop calls have returned, one after the teardown, one from the early return
C3_Witness ==
    \E s, t \in Stoppers :
        /\ stopRole[s] = "teardown" /\ stopPc[s] = "done"
        /\ stopRole[t] = "noop" /\ stopPc[t] = "done" /\ stopResult[t] = Nil
        /\ closedStores = 1 /\ interrupts = 1 /\ sweeps = 1

\* C4: when Accept fails while the server is running, so that AcceptLoop ends
\* with that error, Serve returns that error.
C4_ServeReturnsAcceptError ==
    servePc = "done" /\ acceptLoopResult \notin {NoResult, Nil}
        => serveResult = acceptLoopResult

\* C5: when Accept returns after the closed flag was set, innerAccept reports
\* closed and no error, AcceptLoop ends with nil and Serve returns nil.
C5_InterruptedAcceptIsClean ==
    acceptAtClosed =>
        /\ servePc = "check" => innerRet.closed # 0 /\ innerRet.err = Nil
        /\ servePc \in {"ret", "done"} => acceptLoopResult = Nil
        /\ servePc = "done" => serveResult = Nil

\* Accept failed after the flag was set and Serve has returned nil
C5_Witness ==
    /\ servePc = "done"
    /\ acceptAtClosed
    /\ acceptErr # Nil
    /\ serveResult = Nil

\* C6: a connection Accept returns after the closed flag was set is never in
\* the registry, never counted, never given a session; once innerAccept has run
\* it is closed, and the accept loop ends without error.
C6_LateConnectionRejected ==
    acceptAtClosed /\ acceptClient # NoConn =>
        /\ acceptClient \notin connections
        /\ sessPc[acceptClient] = "none"
        /\ wg = Cardinality(LiveSessions)
        /\ servePc # "lock" =>
             /\ connClosed[acceptClient]
             /\ innerRet = [closed |-> 1, err |-> Nil]
        /\ servePc \in {"ret", "done"} => acceptLoopResult = Nil

\* a connection accepted after the flag was set has been closed and Serve is over
C6_Witness ==
    /\ servePc = "done"
    /\ acceptAtClosed
    /\ acceptClient # NoConn
    /\ connClosed[acceptClient]
    /\ sessPc[acceptClient] = "none"
    /\ acceptLoopResult = Nil

\* C7: after an "unknown method" application error the session goes on with its
\* loop; after any other error that is not nil and not a clean end of stream
\* the session leaves the loop.
C7_ErrorPolicy ==
    \A c \in Conns :
        /\ lastErr[c] = ErrUnknownMethod => sessPc[c] = "loop"
        /\ lastErr[c] \in {ErrNotOpen, ErrGeneric} => sessPc[c] = "cleanup"

\* A step of session c that leaves its deferred cleanup pending no more
CleanupStep(c) == sessPc[c] = "cleanup" /\ sessPc'[c] # "cleanup"

\* The deferred cleanup of session c: deregistered, counted down, nothing else
Deregisters(c) ==
    /\ sessPc'[c] = "done"
    /\ connections' = connections \ {c}
    /\ wg' = wg - 1
    /\ closed' = closed

\* C8: when Process returns a clean end of stream the session leaves its loop,
\* processRequests returns nil, the deferred Closes have run, and the step that
\* follows is the goroutine's cleanup.
C8_EndOfStreamIsClean ==
    [][\A c \in Conns :
         /\ lastErr'[c] = ErrEOF =>
              sessPc'[c] = "cleanup" /\ sessResult'[c] = ErrNil /\ TransportsClosed(c)'
         /\ lastErr[c] = ErrEOF /\ CleanupStep(c) => Deregisters(c)]_vars

\* a session that met the end of the stream awaits its cleanup with a nil result
C8_Witness ==
    \E c \in Conns :
        /\ lastErr[c] = ErrEOF
        /\ sessPc[c] = "cleanup"
        /\ sessResult[c] = ErrNil
        /\ TransportsClosed(c)

\* C9: when Process returns a generic error the session leaves its loop with
\* its transports closed, then deregisters and counts down, and neither step
\* touches the closed flag, the accept loop or the other sessions' entries.
C9_GenericErrorEndsSession ==
    [][\A c \in Conns :
         /\ sessPc[c] = "process" /\ lastErr'[c] = ErrGeneric =>
              /\ sessPc'[c] = "cleanup"
              /\ TransportsClosed(c)'
              /\ closed' = closed /\ servePc' = servePc /\ connections' = connections
         /\ lastErr[c] = ErrGeneric /\ CleanupStep(c) =>
              Deregisters(c) /\ servePc' = servePc]_vars

\* No Stop call has begun
NoStopCalled == \A s \in Stoppers : stopPc[s] = "idle"

\* C10: when Process returns continue = false and no error, processRequests
\* returns nil and the session deregisters and counts down by itself; with no
\* Stop call, once every registered session is done the registry is empty, the
\* counter zero and the closed flag unset.
C10_BreakSelfDeregisters ==
    /\ [][\A c \in Conns :
            /\ ~lastOk'[c] /\ lastErr'[c] = ErrNil =>
                 sessPc'[c] = "cleanup" /\ sessResult'[c] = ErrNil /\ TransportsClosed(c)'
            /\ ~lastOk[c] /\ lastErr[c] = ErrNil /\ CleanupStep(c) => Deregisters(c)]_vars
    /\ [](NoStopCalled /\ (\A c \in Registered : sessPc[c] = "done")
            => connections = {} /\ wg = 0 /\ closed = 0)

\* with no Stop call, the last live session has left its loop on continue =
\* false and every other connection was served and deregistered
C10_Witness ==
    /\ NoStopCalled
    /\ closed = 0
    /\ Cardinality(Registered) = MaxConns
    /\ \E c \in Conns :
         /\ ~lastOk[c] /\ lastErr[c] = ErrNil
         /\ sessPc[c] = "cleanup" /\ sessResult[c] = ErrNil
         /\ connections = {c}
         /\ \A d \in Conns \ {c} : sessPc[d] = "done"

\* C11: when Listen fails, Serve returns the listen error in that step, the
\* accept loop is never entered (no Accept call, no connection registered), and
\* the step leaves the closed flag, the registry and the counter as they were.
C11_ListenFailureReturned ==
    /\ [](~listening =>
            /\ servePc \in {"start", "done"}
            /\ nextConn = 1 /\ acceptClient = NoConn /\ Registered = {}
            /\ acceptLoopResult = NoResult
            /\ servePc = "done" => serveResult = "listenErr")
    /\ [][servePc = "start" /\ servePc' = "done" =>
            /\ serveResult' = "listenErr"
            /\ closed' = closed /\ connections' = connections /\ wg' = wg]_vars

\* Serve has returned the listen error
C11_Witness ==
    /\ servePc = "done"
    /\ serveResult = "listenErr"
    /\ ~listening
    /\ nextConn = 1

\* C13 as stated: the registry holds exactly the connections of the live
\* sessions, as many as the counter says, in every state.
C13_RegistryIsLiveSessions ==
    /\ connections = LiveSessions
    /\ Cardinality(connections) = wg

\* C13 amended: the counter is the number of live sessions, the registry holds
\* only connections of live sessions, and holds all of them while the closed
\* flag is unset.
C13_RegistryWithinLiveSessions ==
    /\ wg = Cardinality(LiveSessions)
    /\ connections \subseteq LiveSessions
    /\ closed = 0 => connections = LiveSessions

\* Stop's sweep has emptied the registry while every session is still live
C13_Witness ==
    /\ closed # 0
    /\ connections = {}
    /\ wg = MaxConns
    /\ Cardinality(LiveSessions) = MaxConns

\* C14: once the closed flag is set no step unsets it, adds a connection to the
\* registry or raises the counter.
C14_ClosedIsOneWay ==
    [][closed # 0 =>
         /\ closed' # 0
         /\ connections' \subseteq connections
         /\ wg' <= wg]_vars

\* with the flag set and a session still live, innerAccept has dealt with a new
\* connection and left it out of the registry
C14_Witness ==
    /\ closed # 0
    /\ wg > 0
    /\ servePc = "check"
    /\ acceptClient # NoConn
    /\ acceptClient \notin connections

\* C15: on every exit path of processRequests, the setup errors included, the
\* transports the session created are closed when the goroutine's cleanup is
\* due, and a session that is done is out of the registry.
C15_TeardownOnEveryExit ==
    \A c \in Conns :
        /\ sessPc[c] = "cleanup" => inTrans[c] # "open" /\ outTrans[c] # "open"
        /\ sessPc[c] = "done" => c \notin connections

\* C17: a loop iteration that starts with the closed flag set returns nil from
\* processRequests at once: no frame is read and Process is not called.
C17_NoIterationAfterClosed ==
    [][\A c \in Conns :
         sessPc[c] = "loop" /\ closed # 0 /\ sessPc'[c] # "loop" =>
            /\ sessPc'[c] = "cleanup"
            /\ sessResult'[c] = ErrNil
            /\ frameErr'[c] = frameErr[c]
            /\ lastErr'[c] = ErrNil /\ lastOk'[c]
            /\ TransportsClosed(c)']_vars

\* a session has left its loop at the loop head because the flag was set
C17_Witness ==
    \E c \in Conns :
        /\ closed # 0
        /\ sessPc[c] = "cleanup"
        /\ sessResult[c] = ErrNil
        /\ lastOk[c] /\ lastErr[c] = ErrNil /\ frameErr[c] = ErrNil

\* Every session but c is where it was
OthersUntouched(c) ==
    \A d \in Conns \ {c} :
        /\ sessPc'[d] = sessPc[d]
        /\ sessResult'[d] = sessResult[d]
        /\ inTrans'[d] = inTrans[d] /\ outTrans'[d] = outTrans[d]

\* C18: a panic in Process is recovered in its session: the deferred Closes
\* have run, the goroutine's cleanup follows and deregisters and counts down,
\* and neither step moves the accept loop or another session.
C18_PanicIsContained ==
    [][\A c \in Conns :
         /\ sessPc[c] = "process" /\ lastErr'[c] = ErrPanic =>
              /\ sessPc'[c] = "cleanup"
              /\ TransportsClosed(c)'
              /\ servePc' = servePc /\ acceptLoopResult' = acceptLoopResult
              /\ OthersUntouched(c)
         /\ lastErr[c] = ErrPanic /\ CleanupStep(c) =>
              /\ Deregisters(c)
              /\ servePc' = servePc /\ acceptLoopResult' = acceptLoopResult
              /\ OthersUntouched(c)]_vars

\* a session has recovered from a panic while the accept loop goes on and
\* another session is being served
C18_Witness ==
    \E c \in Conns :
        /\ lastErr[c] = ErrPanic
        /\ sessPc[c] = "cleanup"
        /\ TransportsClosed(c)
        /\ servePc = "accept"
        /\ \E d \in Conns \ {c} : sessPc[d] = "process"

\* C19: with a header protocol, a clean end of stream, from Process or from
\* the ReadFrame at the head of an iteration, ends the session with a nil
\* result of processRequests.
C19_FrameEndOfStreamIsClean ==
    \A c \in Conns :
        headerProto /\ (frameErr[c] = ErrEOF \/ lastErr[c] = ErrEOF)
            => sessPc[c] = "cleanup" /\ sessResult[c] = ErrNil

\* The mutex is held across steps only by a Stop between its Lock and Unlock
MutexHeldOnlyInStopSection ==
    /\ mu # Free => \E s \in Stoppers :
                       mu = StopThread(s) /\ stopPc[s] \in {"store", "interrupt", "sweep"}
    /\ \A s \in Stoppers : stopPc[s] \in {"wait", "done", "idle"} => mu # StopThread(s)

\* C16: under fair scheduling every Stop that has passed its closed test
\* returns, every registered session reaches its cleanup and the counter
\* reaches zero once the flag is set; the mutex is never held by a Stop that
\* waits on the counter, nor across an Accept or a Process call.
C16_StopEventuallyReturns ==
    /\ \A s \in Stoppers : (stopPc[s] # "idle") ~> (stopPc[s] = "done")
    /\ (closed # 0) ~> (wg = 0 /\ LiveSessions = {})
    /\ []MutexHeldOnlyInStopSection

\* the teardown Stop has returned after every session it found live has exited
C16_Witness ==
    /\ \E s \in Stoppers : stopRole[s] = "teardown" /\ stopPc[s] = "done"
    /\ wg = 0
    /\ Registered = Conns
    /\ \A c \in Conns : sessPc[c] = "done" /\ connClosed[c]

\* C12: the effective forward-header list is what the argument of the last
\* SetForwardHeaders call held at the call, whatever the caller wrote to its
\* slice since; a call with an empty list leaves the field nil.
C12_ForwardHeadersAreCopied ==
    /\ [](ForwardHeaderList = lastSet)
    /\ [](lastSet = <<>> => forwardHeaders = "nil")
    /\ [][lastSet # <<>> /\ lastSet' = <<>> =>
            forwardHeaders' = "nil" /\ ForwardHeaderList' = <<>>]_vars

\* the caller has changed its slice after the call, and the server's list is
\* still what was passed
C12_Witness ==
    /\ servePc = "accept"
    /\ lastSet # <<>>
    /\ Len(lastSet) = MaxHeaders
    /\ callerSlice # lastSet
    /\ ForwardHeaderList = lastSet

\* C20: a session with a header input protocol uses that protocol instance for
\* output, never calls the output factories, and calls Process with a context
\* that has the read headers and the forward-header list; any other session
\* has an output pair of its own from the output factories and calls Process
\* with the background context.
C20_ProtocolSharing ==
    \A c \in Conns :
        /\ sessPc[c] \in {"loop", "readFrame", "process"} =>
              IF headerProto
              THEN /\ outProto[c] = "input"
                   /\ ~outFactoryCalled[c]
                   /\ outTrans[c] = "none"
              ELSE /\ outProto[c] = "output"
                   /\ outFactoryCalled[c]
                   /\ outTrans[c] = "open" /\ inTrans[c] = "open"
        /\ sessPc[c] = "cleanup" /\ headerProto => ~outFactoryCalled[c]
        /\ sessPc[c] = "process" =>
              ctx[c] = IF headerProto THEN HeaderContext(lastSet) ELSE Background

\* Process is about to be called with a context that forwards a list the
\* caller has since overwritten
C20_Witness ==
    \E c \in Conns :
        /\ headerProto
        /\ sessPc[c] = "process"
        /\ outProto[c] = "input"
        /\ ctx[c].readHeaders
        /\ Len(ctx[c].writeHeaderList) = MaxHeaders
        /\ callerSlice # lastSet

====
